---- MODULE Spec2Model ----
(***************************************************************************)
(* Model of the tabular data-cleaning pipeline (src/src): the loaders, the *)
(* cleaning stages (handle_missing_values, remove_duplicates), the feature *)
(* stages (process_numeric_columns, normalize_features,                    *)
(* create_dummy_variables) and the batch driver (main, process_file).      *)
(*                                                                         *)
(* A cell is a triple <<n, d, s>>: the number n/d (d > 0, lowest terms,    *)
(* s = ""), the text s (n = d = 0, s # ""), or the missing marker NA       *)
(* (pandas NaN/None).  A number cell stands for the float64 nearest n/d:   *)
(* over the integer cells of the model the sums, means, quantiles and      *)
(* clipping bounds of the stages are fractions whose float64 results are   *)
(* the nearest floats, so they are computed as fractions.  The min-max     *)
(* scaler is not of that kind: its arithmetic is followed in float64, and  *)
(* a result k floats above the float nearest n/d is the cell               *)
(* <<n, d, "", k>> (below it when k < 0).  A table (DataFrame) is a record *)
(* of its column names in order, a dtype per column, the row labels (the   *)
(* pandas index) and one cell sequence per column.  Column names of a      *)
(* table are unique.                                                       *)
(***************************************************************************)
EXTENDS Integers, Sequences, FiniteSets, TLC

(* ------------------------------ numbers ------------------------------ *)

Abs(x) == IF x < 0 THEN -x ELSE x

RECURSIVE GCD(_, _)
GCD(a, b) == IF b = 0 THEN a ELSE GCD(b, a % b)

NA == <<0, 0, "">>

Num(n, d) ==
  LET g == GCD(Abs(n), Abs(d))
      sg == IF d < 0 THEN -1 ELSE 1
  IN <<(sg * n) \div g, (sg * d) \div g, "">>

Int2Num(i) == <<i, 1, "">>

Txt(s) == <<0, 0, s>>

IsNA(c) == c = NA

IsNum(c) == c[2] > 0

IsTxt(c) == c[2] = 0 /\ c[3] # ""

RAdd(a, b) == Num(a[1] * b[2] + b[1] * a[2], a[2] * b[2])

RSub(a, b) == Num(a[1] * b[2] - b[1] * a[2], a[2] * b[2])

RMul(a, b) == Num(a[1] * b[1], a[2] * b[2])

\* a / b for b # 0
RDiv(a, b) == Num(a[1] * b[2], a[2] * b[1])

RLe(a, b) == a[1] * b[2] <= b[1] * a[2]

RLt(a, b) == a[1] * b[2] < b[1] * a[2]

(* ------------------------------ float64 ------------------------------- *)
(* A number cell n/d stands for the float64 nearest n/d.  The scaler's    *)
(* arithmetic is followed operation by operation: a float is a sign, a    *)
(* mantissa and an exponent, the value being mantissa * 2^exponent, and   *)
(* every operation rounds its exact result to 53 bits, ties to even.  A   *)
(* mantissa is a natural number written in digits of 14 bits, lowest      *)
(* digit first and no leading zero digit, so that no step leaves the      *)
(* 32-bit integers.  The magnitudes of the model stay far from overflow   *)
(* and underflow, and the mantissa of a divisor stays below 2^17.         *)

Pow2(k) == 2 ^ k

Base == Pow2(14)

\* the digits of the natural number n < 2^31
Digits(n) ==
  IF n = 0 THEN <<>>
  ELSE IF n < Base THEN <<n>>
  ELSE IF n < Base * Base THEN <<n % Base, n \div Base>>
  ELSE <<n % Base, (n \div Base) % Base, n \div (Base * Base)>>

\* the natural number with the digits a, for one below 2^31
RECURSIVE BVal(_)
BVal(a) == IF a = <<>> THEN 0 ELSE Head(a) + Base * BVal(Tail(a))

\* leading zero digits removed
BStrip(a) ==
  LET nz == {i \in 1..Len(a) : a[i] # 0}
  IN IF nz = {} THEN <<>> ELSE SubSeq(a, 1, CHOOSE i \in nz : \A j \in nz : j <= i)

\* a + b + c for a carry c
RECURSIVE BAddC(_, _, _)
BAddC(a, b, c) ==
  IF a = <<>> /\ b = <<>> THEN (IF c = 0 THEN <<>> ELSE <<c>>)
  ELSE LET t == (IF a = <<>> THEN 0 ELSE Head(a)) + (IF b = <<>> THEN 0 ELSE Head(b)) + c
       IN <<t % Base>> \o BAddC(IF a = <<>> THEN a ELSE Tail(a),
                                IF b = <<>> THEN b ELSE Tail(b), t \div Base)

BAdd(a, b) == BAddC(a, b, 0)

\* a - b - c for a borrow c and a >= b + c; leading zeros are left in
RECURSIVE BSubC(_, _, _)
BSubC(a, b, c) ==
  IF a = <<>> THEN <<>>
  ELSE LET t == Head(a) - (IF b = <<>> THEN 0 ELSE Head(b)) - c
       IN <<t % Base>> \o BSubC(Tail(a), IF b = <<>> THEN b ELSE Tail(b),
                                IF t < 0 THEN 1 ELSE 0)

\* a - b for a >= b
BSub(a, b) == BStrip(BSubC(a, b, 0))

\* a < b
BLess(a, b) ==
  IF Len(a) # Len(b) THEN Len(a) < Len(b)
  ELSE \E i \in 1..Len(a) : a[i] < b[i] /\ \A j \in (i + 1)..Len(a) : a[j] = b[j]

\* a * k + c for 0 <= k <= Base and a carry c
RECURSIVE BMulSmall(_, _, _)
BMulSmall(a, k, c) ==
  IF a = <<>> THEN (IF c = 0 THEN <<>> ELSE <<c>>)
  ELSE LET t == Head(a) * k + c
       IN <<t % Base>> \o BMulSmall(Tail(a), k, t \div Base)

RECURSIVE BMul(_, _)
BMul(a, b) ==
  IF a = <<>> \/ b = <<>> THEN <<>>
  ELSE BAdd(BMulSmall(b, Head(a), 0), <<0>> \o BMul(Tail(a), b))

\* <<a \div d, a % d>> for 0 < d < 2^17, the quotient with leading zeros
RECURSIVE BDivSmall(_, _)
BDivSmall(a, d) ==
  IF a = <<>> THEN <<(<<>>), 0>>
  ELSE LET h == BDivSmall(Tail(a), d)
           t == h[2] * Base + Head(a)
       IN <<(<<t \div d>>) \o h[1], t % d>>

\* a * 2^k
BShl(a, k) ==
  IF a = <<>> THEN <<>>
  ELSE [i \in 1..(k \div 14) |-> 0] \o BMulSmall(a, Pow2(k % 14), 0)

\* a \div 2^k
BShr(a, k) == BStrip(BDivSmall(SubSeq(a, k \div 14 + 1, Len(a)), Pow2(k % 14))[1])

\* the number of binary digits of a
BLen(a) ==
  IF a = <<>> THEN 0
  ELSE 14 * (Len(a) - 1) + CHOOSE k \in 1..14 : Pow2(k - 1) <= a[Len(a)] /\ a[Len(a)] < Pow2(k)

\* binary digit i of a, the lowest being digit 1
BBit(a, i) ==
  LET p == (i - 1) \div 14 + 1
  IN IF p > Len(a) THEN 0 ELSE (a[p] \div Pow2((i - 1) % 14)) % 2

FZero == [neg |-> FALSE, m |-> <<>>, e |-> 0]

\* the float -m * 2^e or m * 2^e, written with an odd mantissa
FMake(neg, m, e) ==
  IF m = <<>> THEN FZero
  ELSE LET z == (CHOOSE i \in 1..BLen(m) : BBit(m, i) = 1 /\ \A j \in 1..(i - 1) : BBit(m, j) = 0) - 1
       IN [neg |-> neg, m |-> BShr(m, z), e |-> e + z]

\* the float of an integer below 2^31 (exact)
FInt(i) == FMake(i < 0, Digits(Abs(i)), 0)

\* the float nearest n * 2^e, ties to even: n cut to its 53 highest bits
Round53(neg, n, e) ==
  IF BLen(n) <= 53 THEN FMake(neg, n, e)
  ELSE LET j == BLen(n) - 53
           kept == BShr(n, j)
           half == BBit(n, j) = 1
           rest == \E i \in 1..(j - 1) : BBit(n, i) = 1
           up == half /\ (rest \/ BBit(kept, 1) = 1)
       IN FMake(neg, IF up THEN BAdd(kept, <<1>>) ELSE kept, e + j)

FNeg(a) == IF a.m = <<>> THEN a ELSE [a EXCEPT !.neg = ~a.neg]

\* a * b
FMul(a, b) == Round53(a.neg # b.neg, BMul(a.m, b.m), a.e + b.e)

\* a + b
FAdd(a, b) ==
  LET e == IF a.e < b.e THEN a.e ELSE b.e
      x == BShl(a.m, a.e - e)
      y == BShl(b.m, b.e - e)
  IN IF a.neg = b.neg THEN Round53(a.neg, BAdd(x, y), e)
     ELSE IF BLess(x, y) THEN Round53(b.neg, BSub(y, x), e)
     ELSE Round53(a.neg, BSub(x, y), e)

\* a - b
FSub(a, b) == FAdd(a, FNeg(b))

\* a / b for b # 0: the quotient to 55 bits or more, one more bit below
\* them telling whether a remainder is left, rounded
FDiv(a, b) ==
  IF a.m = <<>> THEN FZero
  ELSE LET t == IF 55 + BLen(b.m) > BLen(a.m) THEN 55 + BLen(b.m) - BLen(a.m) ELSE 0
           h == BDivSmall(BShl(a.m, t), BVal(b.m))
           sticky == IF h[2] = 0 THEN <<>> ELSE <<1>>
       IN Round53(a.neg # b.neg, BAdd(BShl(BStrip(h[1]), 1), sticky), a.e - b.e - t - 1)

\* the place of a float above zero among the floats in increasing order,
\* counted from a fixed float: the exponent and the mantissa of its form
\* with a mantissa of 53 bits
FOrd(a) ==
  LET s == 53 - BLen(a.m)
  IN BAdd(BShl(Digits(a.e - s + 1200), 52), BSub(BShl(a.m, s), BShl(<<1>>, 52)))

\* a <= b for floats a, b >= 0
FLe(a, b) == a.m = <<>> \/ (b.m # <<>> /\ ~BLess(FOrd(b), FOrd(a)))

\* how many floats b lies above a (below when negative), for a, b >= 0
FSteps(a, b) ==
  IF a = b THEN 0
  ELSE LET x == IF a.m = <<>> THEN <<>> ELSE FOrd(a)
           y == IF b.m = <<>> THEN <<>> ELSE FOrd(b)
       IN IF BLess(x, y) THEN BVal(BSub(y, x)) ELSE 0 - BVal(BSub(x, y))

\* the float k floats above a float above zero
FStep(a, k) ==
  LET o == IF k < 0 THEN BSub(FOrd(a), Digits(0 - k)) ELSE BAdd(FOrd(a), Digits(k))
      hi == BShr(o, 52)
      lo == BSub(o, BShl(hi, 52))
  IN FMake(FALSE, BAdd(lo, BShl(<<1>>, 52)), BVal(hi) - 1200)

\* the float a number cell stands for
FCell(c) ==
  LET f == FDiv(FInt(c[1]), FInt(c[2]))
  IN IF Len(c) = 4 THEN FStep(f, c[4]) ELSE f

\* the number cell for the float f, named by the fraction q it is nearest
\* to or a few floats away from
CellOf(f, q) ==
  LET k == FSteps(FCell(q), f)
  IN IF k = 0 THEN q ELSE <<q[1], q[2], "", k>>

(* ------------------------------ sequences ---------------------------- *)

Range(s) == {s[i] : i \in 1..Len(s)}

RECURSIVE SeqSum(_)
SeqSum(s) == IF s = <<>> THEN Int2Num(0) ELSE RAdd(Head(s), SeqSum(Tail(s)))

RECURSIVE InsertSorted(_, _)
InsertSorted(v, s) ==
  IF s = <<>> THEN <<v>>
  ELSE IF RLe(v, Head(s)) THEN <<v>> \o s
  ELSE <<Head(s)>> \o InsertSorted(v, Tail(s))

RECURSIVE SortNums(_)
SortNums(s) == IF s = <<>> THEN <<>> ELSE InsertSorted(Head(s), SortNums(Tail(s)))

\* the elements of s at the positions in P, in order
RECURSIVE PickFrom(_, _, _)
PickFrom(s, i, P) ==
  IF i > Len(s) THEN <<>>
  ELSE (IF i \in P THEN <<s[i]>> ELSE <<>>) \o PickFrom(s, i + 1, P)

Pick(s, P) == PickFrom(s, 1, P)

NotNA(c) == ~IsNA(c)

\* Series.dropna(): the non-missing cells, in order
DropNACells(col) == SelectSeq(col, NotNA)

Count(col, v) == Cardinality({i \in 1..Len(col) : col[i] = v})

(* --------------------------- text ordering --------------------------- *)

\* Python compares str by code point; the texts of the model in that order
TextOrder == <<"A", "B", "C", "Other">>

TextRank(s) == CHOOSE i \in 1..Len(TextOrder) : TextOrder[i] = s

\* the order sorted() / Series.sort_values() puts two cells of one column in
CellLe(a, b) ==
  IF IsNum(a) /\ IsNum(b) THEN RLe(a, b)
  ELSE TextRank(a[3]) <= TextRank(b[3])

RECURSIVE InsertCell(_, _)
InsertCell(v, s) ==
  IF s = <<>> THEN <<v>>
  ELSE IF CellLe(v, Head(s)) THEN <<v>> \o s
  ELSE <<Head(s)>> \o InsertCell(v, Tail(s))

RECURSIVE SortCells(_)
SortCells(s) == IF s = <<>> THEN <<>> ELSE InsertCell(Head(s), SortCells(Tail(s)))

\* the distinct cells of s in order of first appearance (Series.unique())
RECURSIVE Unique(_)
Unique(s) ==
  IF s = <<>> THEN <<>>
  ELSE LET u == Unique(SubSeq(s, 1, Len(s) - 1))
           x == s[Len(s)]
       IN IF x \in Range(u) THEN u ELSE Append(u, x)

(* -------------------------- column statistics ------------------------ *)

\* Series.mean(): NaN for a column with no value
Mean(col) ==
  LET v == DropNACells(col)
  IN IF v = <<>> THEN NA ELSE RDiv(SeqSum(v), Int2Num(Len(v)))

\* Series.median(): NaN for a column with no value
Median(col) ==
  LET v == SortNums(DropNACells(col))
      n == Len(v)
  IN IF n = 0 THEN NA
     ELSE IF n % 2 = 1 THEN v[(n + 1) \div 2]
     ELSE RDiv(RAdd(v[n \div 2], v[n \div 2 + 1]), Int2Num(2))

\* Series.mode(): the most frequent values, missing cells left out, sorted
ModeValues(col) ==
  LET v == DropNACells(col)
      best == {x \in Range(v) : \A y \in Range(v) : Count(v, y) <= Count(v, x)}
  IN SortCells(Pick(Unique(v), {i \in 1..Len(Unique(v)) : Unique(v)[i] \in best}))

\* Series.quantile(qn/qd), linear interpolation between the closest ranks
Quantile(col, qn, qd) ==
  LET v == SortNums(DropNACells(col))
      n == Len(v)
      pos == (n - 1) * qn
      lo == pos \div qd
      r == pos % qd
  IN IF n = 0 THEN NA
     ELSE IF r = 0 THEN v[lo + 1]
     ELSE RAdd(v[lo + 1], RMul(Num(r, qd), RSub(v[lo + 2], v[lo + 1])))

\* one cell of Series.clip(lower, upper): a missing cell stays missing, a
\* missing threshold does not clip
ClipCell(c, lower, upper) ==
  IF IsNA(c) THEN c
  ELSE LET a == IF ~IsNA(lower) /\ RLt(c, lower) THEN lower ELSE c
       IN IF ~IsNA(upper) /\ RLt(upper, a) THEN upper ELSE a

Clip(col, lower, upper) == [i \in 1..Len(col) |-> ClipCell(col[i], lower, upper)]

\* Series.fillna(v)
FillNA(col, v) == [i \in 1..Len(col) |-> IF IsNA(col[i]) THEN v ELSE col[i]]

(* ------------------------------- tables ------------------------------ *)

\* Optional[...] arguments
None == [some |-> FALSE, val |-> <<>>]

Some(v) == [some |-> TRUE, val |-> v]

HasCol(t, c) == c \in Range(t.columns)

NRows(t) == Len(t.index)

\* pd.api.types.is_numeric_dtype(df[c]): int, float and bool columns
IsNumericDtype(t, c) == t.dtype[c] \in {"num", "bool"}

\* df[c].isna().sum()
NACount(t, c) == Cardinality({i \in 1..NRows(t) : IsNA(t.data[c][i])})

\* df[c] = cells, for a column c the table has
SetCol(t, c, cells, dt) ==
  [t EXCEPT !.data[c] = cells, !.dtype[c] = dt]

\* the rows of t at the positions in P, labels kept
SelectRows(t, P) ==
  [t EXCEPT !.index = Pick(t.index, P),
            !.data = [c \in DOMAIN t.data |-> Pick(t.data[c], P)]]

\* dropna left out: every row stays
DropNaRows_KeepAll(t, c) == t

\* df.dropna(subset=[c])
DropNaRows(t, c) == SelectRows(t, {i \in 1..NRows(t) : ~IsNA(t.data[c][i])})

RowAt(t, i) == [c \in Range(t.columns) |-> t.data[c][i]]

\* keep='last' in place of keep='first'
DropDuplicates_KeepLast(t) ==
  SelectRows(t, {i \in 1..NRows(t) : \A j \in (i + 1)..NRows(t) : RowAt(t, j) # RowAt(t, i)})

\* df.drop_duplicates(): keep='first', every column compared, NaN equal to NaN
DropDuplicates(t) ==
  SelectRows(t, {i \in 1..NRows(t) : \A j \in 1..(i - 1) : RowAt(t, j) # RowAt(t, i)})

(* ------------------------- objects and names -------------------------- *)
(* A stage is entered with the name df bound to the caller's object.  A   *)
(* frame holds the caller's object, the object df is bound to now and     *)
(* whether the two are one object; raised says an exception reached the   *)
(* stage's outer handler.                                                 *)

Enter(t) == [caller |-> t, df |-> t, alias |-> TRUE, raised |-> FALSE]

\* the copy left out: df stays bound to the caller's object
DfCopy_NoCopy(fr) == fr

\* df = df.copy()
DfCopy(fr) == [fr EXCEPT !.alias = FALSE]

\* df = <a new table>
Rebind(fr, t) == [fr EXCEPT !.df = t, !.alias = FALSE]

\* df[c] = cells: writes into the object df is bound to
AssignCol(fr, c, cells, dt) ==
  LET t == SetCol(fr.df, c, cells, dt)
  IN [fr EXCEPT !.df = t, !.caller = IF fr.alias THEN t ELSE @]

Raise(fr) == [fr EXCEPT !.raised = TRUE]

(* ------------------------ handle_missing_values ----------------------- *)

column_strategies ==
  [c \in {"Year", "Country", "Region", "Crop_Type", "Average_Temperature_C",
          "Total_Precipitation_mm", "CO2_Emissions_MT", "Crop_Yield_MT_per_HA",
          "Extreme_Weather_Events", "Irrigation_Access_%",
          "Pesticide_Use_KG_per_HA", "Fertilizer_Use_KG_per_HA",
          "Soil_Health_Index", "Adaptation_Strategies",
          "Economic_Impact_Million_USD"} |->
     CASE c \in {"Year", "Country"} -> "drop"
       [] c \in {"Region", "Crop_Type", "Adaptation_Strategies"} -> "mode"
       [] c = "Extreme_Weather_Events" -> "median"
       [] OTHER -> "mean"]

\* the policy table left out: every column takes the caller's strategy
ColStrategy_CallerOnly(col, strategy) == strategy

\* column_strategies.get(col, strategy)
ColStrategy(col, strategy) ==
  IF col \in DOMAIN column_strategies THEN column_strategies[col] ELSE strategy

\* df[col] = df[col].fillna(df[col].mode()[0]); mode()[0] raises on an empty
\* mode, the except of the column logs it and the loop continues
FillMode(fr, col) ==
  LET m == ModeValues(fr.df.data[col])
  IN IF m = <<>> THEN fr
     ELSE AssignCol(fr, col, FillNA(fr.df.data[col], m[1]), fr.df.dtype[col])

\* the mean taken from the table the function was called with, not from the
\* working table
FillMean_OverCallerTable(fr, col) ==
  AssignCol(fr, col, FillNA(fr.df.data[col], Mean(fr.caller.data[col])), fr.df.dtype[col])

FillMean(fr, col) ==
  AssignCol(fr, col, FillNA(fr.df.data[col], Mean(fr.df.data[col])), fr.df.dtype[col])

FillMedian(fr, col) ==
  AssignCol(fr, col, FillNA(fr.df.data[col], Median(fr.df.data[col])), fr.df.dtype[col])

DropMissing(fr, col) == Rebind(fr, DropNaRows(fr.df, col))

\* one pass of the loop over columns
HmvColumn(fr, col, strategy) ==
  IF ~HasCol(fr.df, col) THEN fr
  ELSE IF NACount(fr.df, col) = 0 THEN fr
  ELSE LET cs == ColStrategy(col, strategy)
       IN IF IsNumericDtype(fr.df, col)
          THEN CASE cs = "mean" -> FillMean(fr, col)
                 [] cs = "median" -> FillMedian(fr, col)
                 [] cs = "mode" -> FillMode(fr, col)
                 [] cs = "drop" -> DropMissing(fr, col)
                 [] OTHER -> FillMean(fr, col)
          ELSE CASE cs = "mode" -> FillMode(fr, col)
                 [] cs = "drop" -> DropMissing(fr, col)
                 [] OTHER -> FillMode(fr, col)

RECURSIVE HmvLoop(_, _, _)
HmvLoop(fr, cols, strategy) ==
  IF cols = <<>> THEN fr
  ELSE HmvLoop(HmvColumn(fr, Head(cols), strategy), Tail(cols), strategy)

\* handle_missing_values(df, strategy, columns): the frame at return; the
\* returned table is its df
handle_missing_values(t, strategy, columns) ==
  LET fr == DfCopy(Enter(t))
      cols == IF columns.some THEN columns.val ELSE fr.df.columns
  IN HmvLoop(fr, cols, strategy)

(* --------------------------- remove_duplicates ------------------------ *)

remove_duplicates(t) ==
  LET fr == Enter(t)
  IN Rebind(fr, DropDuplicates(fr.df))

(* ----------------------- process_numeric_columns ---------------------- *)

\* the treatments in the dict's insertion order (min, max unused for iqr)
numeric_columns ==
  << [col |-> "Year", method |-> "clip", min |-> 1990, max |-> 2024],
     [col |-> "Average_Temperature_C", method |-> "iqr", min |-> 0, max |-> 0],
     [col |-> "Total_Precipitation_mm", method |-> "iqr", min |-> 0, max |-> 0],
     [col |-> "CO2_Emissions_MT", method |-> "iqr", min |-> 0, max |-> 0],
     [col |-> "Crop_Yield_MT_per_HA", method |-> "iqr", min |-> 0, max |-> 0],
     [col |-> "Extreme_Weather_Events", method |-> "clip", min |-> 0, max |-> 10],
     [col |-> "Irrigation_Access_%", method |-> "clip", min |-> 0, max |-> 100],
     [col |-> "Pesticide_Use_KG_per_HA", method |-> "iqr", min |-> 0, max |-> 0],
     [col |-> "Fertilizer_Use_KG_per_HA", method |-> "iqr", min |-> 0, max |-> 0],
     [col |-> "Soil_Health_Index", method |-> "clip", min |-> 0, max |-> 100],
     [col |-> "Economic_Impact_Million_USD", method |-> "iqr", min |-> 0, max |-> 0] >>

\* Q1 - 1.5 * IQR and Q3 + 1.5 * IQR; NaN when the column has no value
IqrLower(col) ==
  LET Q1 == Quantile(col, 1, 4)
      Q3 == Quantile(col, 3, 4)
  IN IF IsNA(Q1) THEN NA ELSE RSub(Q1, RMul(Num(3, 2), RSub(Q3, Q1)))

\* 3 * IQR in place of 1.5 * IQR
IqrUpper_Wide(col) ==
  LET Q1 == Quantile(col, 1, 4)
      Q3 == Quantile(col, 3, 4)
  IN IF IsNA(Q1) THEN NA ELSE RAdd(Q3, RMul(Int2Num(3), RSub(Q3, Q1)))

IqrUpper(col) ==
  LET Q1 == Quantile(col, 1, 4)
      Q3 == Quantile(col, 3, 4)
  IN IF IsNA(Q1) THEN NA ELSE RAdd(Q3, RMul(Num(3, 2), RSub(Q3, Q1)))

\* one pass of the loop over numeric_columns; quantile and clip raise a
\* TypeError on a text cell, which the outer except takes, and skip missing
\* cells.  On an object column that holds no text (its cells all missing,
\* or no cells) they raise or leave the column as it is, depending on the
\* pandas release installed, which the repository does not pin:
\* objectRaises tells which
PncColumn(fr, tr, objectRaises) ==
  IF ~HasCol(fr.df, tr.col) THEN fr
  ELSE LET cells == fr.df.data[tr.col]
           dt == fr.df.dtype[tr.col]
       IN IF \E i \in 1..Len(cells) : IsTxt(cells[i]) THEN Raise(fr)
          ELSE IF dt = "obj" /\ objectRaises THEN Raise(fr)
          ELSE IF tr.method = "iqr"
          THEN AssignCol(fr, tr.col, Clip(cells, IqrLower(cells), IqrUpper(cells)), dt)
          ELSE AssignCol(fr, tr.col, Clip(cells, Int2Num(tr.min), Int2Num(tr.max)), dt)

RECURSIVE PncLoop(_, _, _)
PncLoop(fr, trs, objectRaises) ==
  IF trs = <<>> \/ fr.raised THEN fr
  ELSE PncLoop(PncColumn(fr, Head(trs), objectRaises), Tail(trs), objectRaises)

\* the entries of seq whose field col / whose name is not in the set ex
RECURSIVE DropTreatments(_, _)
DropTreatments(trs, ex) ==
  IF trs = <<>> THEN <<>>
  ELSE (IF Head(trs).col \in ex THEN <<>> ELSE <<Head(trs)>>) \o DropTreatments(Tail(trs), ex)

process_numeric_columns(t, exclude_columns, objectRaises) ==
  LET fr == DfCopy(Enter(t))
      trs == IF exclude_columns.some /\ exclude_columns.val # <<>>
             THEN DropTreatments(numeric_columns, Range(exclude_columns.val))
             ELSE numeric_columns
  IN PncLoop(fr, trs, objectRaises)

(* -------------------------- normalize_features ------------------------ *)

\* the names of seq that are in the set keep, in order
Names(seq, keep) == Pick(seq, {i \in 1..Len(seq) : seq[i] \in keep})

\* df.select_dtypes(include=[np.number]).columns.tolist(): bool is left out
NumberColumns(t) == Names(t.columns, {c \in Range(t.columns) : t.dtype[c] = "num"})

RMinOf(S) == CHOOSE x \in S : \A y \in S : RLe(x, y)

RMaxOf(S) == CHOOSE x \in S : \A y \in S : RLe(y, x)

\* sklearn _handle_zeros_in_scale on a range r >= 0: a zero range scales
\* by 1.  From release 0.24 on every range below 10 * eps (eps = 2^-52)
\* does, before that only the range 0; the repository pins no release, and
\* belowTenEps tells which rule the installed one follows
HandleZerosInScale(r, belowTenEps) ==
  IF r.m = <<>> THEN FInt(1)
  ELSE IF belowTenEps /\ ~FLe(FMake(FALSE, Digits(10), -52), r) THEN FInt(1)
  ELSE r

\* one cell of MinMaxScaler().fit_transform: X * scale_ + min_ in float64,
\* with data_range = data_max - data_min, scale_ = 1 / data_range and
\* min_ = 0 - data_min * scale_
MinMaxFloat(x, mn, mx, belowTenEps) ==
  LET data_range == FSub(FCell(mx), FCell(mn))
      scale_ == FDiv(FInt(1), HandleZerosInScale(data_range, belowTenEps))
      min_ == FSub(FInt(0), FMul(FCell(mn), scale_))
  IN FAdd(FMul(FCell(x), scale_), min_)

\* the cell of that float, named by the fraction (x - mn) / (mx - mn); the
\* float is within a few floats of the fraction's when the range is 0 or
\* not below 10 * eps
ScaleCell(x, mn, mx, belowTenEps) ==
  CellOf(MinMaxFloat(x, mn, mx, belowTenEps),
         IF RSub(mx, mn)[1] = 0 THEN Int2Num(0) ELSE RDiv(RSub(x, mn), RSub(mx, mn)))

\* ScaleCell over the small integers, computed once; their ranges are 0 or
\* at least 1, where the two rules for the range agree
ScaledInts == (0..6) \cup {1989}

ScaleTable ==
  { <<t, ScaleCell(Int2Num(t[1]), Int2Num(t[2]), Int2Num(t[3]), TRUE)>> :
      t \in {u \in ScaledInts \X ScaledInts \X ScaledInts : u[2] <= u[1] /\ u[1] <= u[3]} }

\* one cell of the scaled column for data_min = mn <= x <= mx = data_max
MinMaxCell(x, mn, mx, belowTenEps) ==
  IF \A c \in {x, mn, mx} : c[1] \in ScaledInts /\ c = Int2Num(c[1])
  THEN (CHOOSE p \in ScaleTable : p[1] = <<x[1], mn[1], mx[1]>>)[2]
  ELSE ScaleCell(x, mn, mx, belowTenEps)

\* MinMaxScaler().fit_transform on one column: data_min and data_max are
\* taken over the cells that are not NaN; NaN cells are ignored by the fit
\* and kept by the transform
MinMaxColumn(col, belowTenEps) ==
  LET v == Range(DropNACells(col))
      le(a, b) == IF Len(a) = 3 /\ Len(b) = 3 THEN RLe(a, b) ELSE FLe(FCell(a), FCell(b))
      data_min == CHOOSE x \in v : \A y \in v : le(x, y)
      data_max == CHOOSE x \in v : \A y \in v : le(y, x)
  IN IF v = {} THEN col
     ELSE [i \in 1..Len(col) |->
             IF IsNA(col[i]) THEN NA ELSE MinMaxCell(col[i], data_min, data_max, belowTenEps)]

\* fit_transform raises ValueError on a table without rows and on a text
\* cell, which does not convert to float; None converts to NaN
FitTransformRaises(t, cols) ==
  NRows(t) = 0 \/ \E i \in 1..Len(cols) : \E k \in 1..NRows(t) : IsTxt(t.data[cols[i]][k])

\* df[columns] = scaler.fit_transform(df[columns])
RECURSIVE AssignScaled(_, _, _)
AssignScaled(fr, cols, belowTenEps) ==
  IF cols = <<>> THEN fr
  ELSE AssignScaled(AssignCol(fr, Head(cols),
                              MinMaxColumn(fr.df.data[Head(cols)], belowTenEps), "num"),
                    Tail(cols), belowTenEps)

\* the columns the call scales: the numeric columns unless columns is
\* given, less the excluded ones, less the ones the table has not
NormalizeColumns(t, columns, exclude_columns) ==
  LET c0 == IF columns.some THEN columns.val ELSE NumberColumns(t)
      c1 == IF exclude_columns.some /\ exclude_columns.val # <<>>
            THEN Names(c0, Range(c0) \ Range(exclude_columns.val))
            ELSE c0
  IN Names(c1, Range(t.columns))

normalize_features(t, columns, exclude_columns, belowTenEps) ==
  LET fr == DfCopy(Enter(t))
      c2 == NormalizeColumns(fr.df, columns, exclude_columns)
  IN IF c2 = <<>> THEN fr
     ELSE IF FitTransformRaises(fr.df, c2) THEN Raise(fr)
     ELSE AssignScaled(fr, c2, belowTenEps)

(* ------------------------ create_dummy_variables ---------------------- *)

\* v put into s, a sequence ordered by falling count in col, behind every
\* entry that is at least as frequent (ties keep their order of appearance)
RECURSIVE InsertByCount(_, _, _)
InsertByCount(v, s, col) ==
  IF s = <<>> THEN <<v>>
  ELSE IF Count(col, Head(s)) >= Count(col, v)
       THEN <<Head(s)>> \o InsertByCount(v, Tail(s), col)
       ELSE <<v>> \o s

RECURSIVE SortByCount(_, _)
SortByCount(u, col) ==
  IF u = <<>> THEN <<>>
  ELSE InsertByCount(u[Len(u)], SortByCount(SubSeq(u, 1, Len(u) - 1), col), col)

\* df[col].value_counts().index: the distinct non-missing values, the most
\* frequent first
ValueCounts(col) == SortByCount(Unique(DropNACells(col)), col)

\* value_counts.nsmallest(n).index: the least frequent values
NLargest_Smallest(vc, n) ==
  IF n <= 0 THEN <<>> ELSE SubSeq(vc, IF n < Len(vc) THEN Len(vc) - n + 1 ELSE 1, Len(vc))

\* value_counts.nlargest(n).index, keep='first'
NLargest(vc, n) == IF n <= 0 THEN <<>> ELSE SubSeq(vc, 1, IF n < Len(vc) THEN n ELSE Len(vc))

\* df[col].where(df[col].isin(top), 'Other'): a missing cell is not in top
WhereIsinOther(col, top) ==
  [i \in 1..Len(col) |-> IF col[i] \in top THEN col[i] ELSE Txt("Other")]

\* get_dummies with drop_first=True: the first category gets no column
DummyCategories_DropFirst(col) ==
  LET cats == SortCells(Unique(DropNACells(col)))
  IN IF cats = <<>> THEN cats ELSE Tail(cats)

\* the categories pd.get_dummies makes columns for: the values, sorted
DummyCategories(col) == SortCells(Unique(DropNACells(col)))

\* f"{col}_{value}"
DummyName(col, v) == col \o "_" \o v[3]

\* one indicator column: True where the cell is the category
Indicator(col, v) == [i \in 1..Len(col) |-> IF col[i] = v THEN Int2Num(1) ELSE Int2Num(0)]

\* df = pd.concat([df, dummies], axis=1) for get_dummies(df[col], prefix=col),
\* with the all-False Other column when addOther
ConcatDummies(t, col, addOther) ==
  LET cells == t.data[col]
      cats == DummyCategories(cells)
      names == [i \in 1..Len(cats) |-> DummyName(col, cats[i])]
      all == IF addOther THEN Append(names, DummyName(col, Txt("Other"))) ELSE names
      new == Range(all)
  IN [columns |-> t.columns \o all,
      dtype |-> [c \in DOMAIN t.dtype \cup new |-> IF c \in new THEN "bool" ELSE t.dtype[c]],
      index |-> t.index,
      data |-> [c \in DOMAIN t.data \cup new |->
                  IF c \in Range(names)
                  THEN Indicator(cells, cats[CHOOSE i \in 1..Len(cats) : names[i] = c])
                  ELSE IF c \in new
                  THEN [i \in 1..Len(cells) |-> Int2Num(0)]
                  ELSE t.data[c]]]

\* df.drop(columns=[col])
DropColumn(t, col) ==
  [columns |-> Names(t.columns, Range(t.columns) \ {col}),
   dtype |-> [c \in DOMAIN t.dtype \ {col} |-> t.dtype[c]],
   index |-> t.index,
   data |-> [c \in DOMAIN t.data \ {col} |-> t.data[c]]]

\* one pass of the loop over columns; df[col] raises KeyError when the
\* column is gone (a name listed twice, dropped by its first pass)
CdvColumn(fr, col, max_categories, keep_original) ==
  IF ~HasCol(fr.df, col) THEN Raise(fr)
  ELSE IF IsNumericDtype(fr.df, col) THEN fr
  ELSE LET value_counts == ValueCounts(fr.df.data[col])
           capped == Len(value_counts) > max_categories
           top == Range(NLargest(value_counts, max_categories - 1))
           fr1 == IF capped
                  THEN AssignCol(fr, col, WhereIsinOther(fr.df.data[col], top), "obj")
                  ELSE fr
           addOther == Txt("Other") \notin Range(fr1.df.data[col]) /\ capped
           fr2 == Rebind(fr1, ConcatDummies(fr1.df, col, addOther))
       IN IF keep_original THEN fr2 ELSE Rebind(fr2, DropColumn(fr2.df, col))

RECURSIVE CdvLoop(_, _, _, _)
CdvLoop(fr, cols, max_categories, keep_original) ==
  IF cols = <<>> \/ fr.raised THEN fr
  ELSE CdvLoop(CdvColumn(fr, Head(cols), max_categories, keep_original),
               Tail(cols), max_categories, keep_original)

DefaultDummyColumns == <<"Country", "Region", "Crop_Type", "Adaptation_Strategies">>

create_dummy_variables(t, columns, max_categories, keep_original) ==
  LET fr == DfCopy(Enter(t))
      c0 == IF columns.some THEN columns.val ELSE DefaultDummyColumns
      c1 == Pick(c0, {i \in 1..Len(c0) : c0[i] \in Range(fr.df.columns)})
  IN IF c1 = <<>> THEN fr
     ELSE CdvLoop(fr, c1, max_categories, keep_original)

(* ------------------------------ inputs -------------------------------- *)

\* most rows of a table with two columns, with one numeric column, with one
\* text column
MaxRows == 3

MaxNumRows == 4

MaxTextRows == 4

\* largest max_categories a call is made with
MaxCategories == 2

\* the dtypes a column of these cells can have in a table a caller built:
\* object when a cell is text, a number dtype when a cell is a number; a
\* column of missing cells only is float64 when they are NaN and object when
\* they are None, and a column without cells is either
Dtypes(cells) ==
  IF \E i \in 1..Len(cells) : IsTxt(cells[i]) THEN {"obj"}
  ELSE IF \E i \in 1..Len(cells) : IsNum(cells[i]) THEN {"num"}
  ELSE {"num", "obj"}

\* the table of the named columns with the dtypes dts, rows labelled 0..n-1
\* (a RangeIndex)
MkTable(names, cols, dts) ==
  [columns |-> names,
   dtype |-> [c \in Range(names) |-> dts[CHOOSE k \in 1..Len(names) : names[k] = c]],
   index |-> [i \in 1..Len(cols[1]) |-> i - 1],
   data |-> [c \in Range(names) |-> cols[CHOOSE k \in 1..Len(names) : names[k] = c]]]

YearCells == {Int2Num(1989), NA}

TempCells == {Int2Num(1), Int2Num(3), NA}

TempTextCells == {Txt("A"), NA}

RegionCells == {Txt("A"), Txt("B"), NA}

NotesCells == {Txt("A"), NA}

ScoreCells == {Int2Num(2), NA}

WideCells == {Int2Num(0), Int2Num(1), Int2Num(6), NA}

CategoryCells == {Txt("A"), Txt("B"), Txt("C"), Txt("Other"), NA}

\* column names and cell domains of the two-column tables
Schemas ==
  { <<"Year", YearCells, "Average_Temperature_C", TempCells>>,
    <<"Average_Temperature_C", TempCells, "Year", YearCells>>,
    <<"Year", YearCells, "Average_Temperature_C", TempTextCells>>,
    <<"Region", RegionCells, "Notes", NotesCells>>,
    <<"Score", ScoreCells, "Region", RegionCells>> }

TwoColumnTables ==
  UNION { UNION { { MkTable(<<sc[1], sc[3]>>, <<a, b>>, <<da, db>>) :
                      da \in Dtypes(a), db \in Dtypes(b) } :
                  a \in [1..n -> sc[2]], b \in [1..n -> sc[4]] } :
          sc \in Schemas, n \in 0..MaxRows }

\* one numeric column, listed in the policy table or not
NumericTables ==
  UNION { UNION { { MkTable(<<nm>>, <<a>>, <<da>>) : da \in Dtypes(a) } :
                  a \in [1..n -> WideCells] } :
          nm \in {"Average_Temperature_C", "Score"}, n \in (MaxRows + 1)..MaxNumRows }

TextTables ==
  UNION { UNION { { MkTable(<<"Region">>, <<a>>, <<da>>) : da \in Dtypes(a) } :
                  a \in [1..n -> CategoryCells] } :
          n \in 1..MaxTextRows }

InputTables == TwoColumnTables \cup NumericTables \cup TextTables

Strategies == {"mean", "median", "mode", "drop", "constant"}

NoCall ==
  [fn |-> "none", strategy |-> "", columns |-> None, exclude_columns |-> None,
   max_categories |-> 0, keep_original |-> FALSE]

(* ------------------------------- state -------------------------------- *)

VARIABLES
  input,       \* a stage call: the table object the caller passes
  call,        \* a stage call: the function called and its arguments
  out,         \* a stage call: the frame at return (caller's object, returned table)
  listing,     \* batch: os.listdir(config.RAW_DATA_PATH)
  data_files,  \* batch: the discovered files
  idx,         \* batch: position of main's loop in data_files
  pc,          \* batch: the statement main / process_file is at
  df,          \* batch: process_file's table
  trace,       \* batch: what process_file has called for the current file
  record       \* batch: one entry per file process_file has returned from

vars == <<input, call, out, listing, data_files, idx, pc, df, trace, record>>

stageVars == <<input, call, out>>

batchVars == <<listing, data_files, idx, pc, df, trace, record>>

EmptyTable == MkTable(<<"Year">>, <<(<<>>)>>, <<"num">>)

BatchIdle ==
  /\ listing = <<>>
  /\ data_files = <<>>
  /\ idx = 0
  /\ pc = "idle"
  /\ df = EmptyTable
  /\ trace = <<>>
  /\ record = <<>>

(* ----------------------------- stage calls ---------------------------- *)

InitStages ==
  /\ input \in InputTables
  /\ call = NoCall
  /\ out = Enter(input)
  /\ BatchIdle

\* the argument lists a caller passes for columns: none, the table's columns
\* in table order and in reverse order, a list naming a column the table
\* does not have
ColumnLists(t) ==
  {None, Some(t.columns),
   Some([i \in 1..Len(t.columns) |-> t.columns[Len(t.columns) + 1 - i]]),
   Some(<<t.columns[Len(t.columns)], "Missing">>)}

Call_handle_missing_values ==
  /\ call.fn = "none"
  /\ \E strategy \in Strategies, columns \in ColumnLists(input) :
       /\ call' = [NoCall EXCEPT !.fn = "handle_missing_values",
                                 !.strategy = strategy, !.columns = columns]
       /\ out' = handle_missing_values(input, strategy, columns)
  /\ UNCHANGED <<input, batchVars>>

Call_remove_duplicates ==
  /\ call.fn = "none"
  /\ call' = [NoCall EXCEPT !.fn = "remove_duplicates"]
  /\ out' = remove_duplicates(input)
  /\ UNCHANGED <<input, batchVars>>

Call_process_numeric_columns ==
  /\ call.fn = "none"
  /\ \E exclude_columns \in {None, Some(<<"Year">>)}, objectRaises \in BOOLEAN :
       /\ call' = [NoCall EXCEPT !.fn = "process_numeric_columns",
                                 !.exclude_columns = exclude_columns]
       /\ out' = process_numeric_columns(input, exclude_columns, objectRaises)
  /\ UNCHANGED <<input, batchVars>>

Call_normalize_features ==
  /\ call.fn = "none"
  /\ \E columns \in ColumnLists(input), exclude_columns \in {None, Some(<<"Year">>)},
        belowTenEps \in BOOLEAN :
       /\ call' = [NoCall EXCEPT !.fn = "normalize_features",
                                 !.columns = columns, !.exclude_columns = exclude_columns]
       /\ out' = normalize_features(input, columns, exclude_columns, belowTenEps)
  /\ UNCHANGED <<input, batchVars>>

\* a name listed twice is passed with keep_original = False only: with the
\* original kept, the second pass makes column names that are not unique
Call_create_dummy_variables ==
  /\ call.fn = "none"
  /\ \E columns \in ColumnLists(input) \cup {Some(<<input.columns[1], input.columns[1]>>)},
        max_categories \in 1..MaxCategories, keep_original \in BOOLEAN :
       /\ columns.some /\ Len(columns.val) # Cardinality(Range(columns.val)) => ~keep_original
       /\ call' = [NoCall EXCEPT !.fn = "create_dummy_variables", !.columns = columns,
                                 !.max_categories = max_categories,
                                 !.keep_original = keep_original]
       /\ out' = create_dummy_variables(input, columns, max_categories, keep_original)
  /\ UNCHANGED <<input, batchVars>>

NextStages ==
  \/ Call_handle_missing_values
  \/ Call_remove_duplicates
  \/ Call_process_numeric_columns
  \/ Call_normalize_features
  \/ Call_create_dummy_variables

SpecStages == InitStages /\ [][NextStages]_vars

(* ------------------------------ loaders ------------------------------- *)

default_numeric ==
  {"Year", "Average_Temperature_C", "Total_Precipitation_mm", "CO2_Emissions_MT",
   "Crop_Yield_MT_per_HA", "Extreme_Weather_Events", "Irrigation_Access_%",
   "Pesticide_Use_KG_per_HA", "Fertilizer_Use_KG_per_HA", "Soil_Health_Index",
   "Economic_Impact_Million_USD"}

\* pd.to_numeric(df[col], errors='coerce'): a cell that is no number becomes NaN
ToNumeric(cells) == [i \in 1..Len(cells) |-> IF IsTxt(cells[i]) THEN NA ELSE cells[i]]

\* the loop converting the numeric columns the table has
CoerceNumeric(t) ==
  [t EXCEPT !.dtype = [c \in DOMAIN t.dtype |->
                         IF c \in default_numeric THEN "num" ELSE t.dtype[c]],
            !.data = [c \in DOMAIN t.data |->
                        IF c \in default_numeric THEN ToNumeric(t.data[c]) ELSE t.data[c]]]

\* what is on disk under a name: whether it opens and parses, and the table
\* its single sheet / its text parses to
Unreadable == [ok |-> FALSE, table |-> EmptyTable]

\* load_csv(file_path): [raised, df]; an error is logged and raised again
load_csv(content) ==
  IF ~content.ok THEN [raised |-> TRUE, df |-> EmptyTable]
  ELSE [raised |-> FALSE, df |-> CoerceNumeric(content.table)]

\* load_excel(file_path, sheet_name): pd.read_excel(..., sheet_name=None)
\* returns a dict of all sheets, df.columns on it raises AttributeError,
\* which is logged and raised again
load_excel(content, sheet_name) ==
  IF ~content.ok THEN [raised |-> TRUE, df |-> EmptyTable]
  ELSE IF ~sheet_name.some THEN [raised |-> TRUE, df |-> EmptyTable]
  ELSE [raised |-> FALSE, df |-> CoerceNumeric(content.table)]

(* -------------------------------- batch ------------------------------- *)

\* most entries of the raw directory, most rows of a file
MaxFiles == 2

MaxFileRows == 2

\* a directory entry: the name is stem \o ext, ext its last suffix
DirEntries ==
  { [stem |-> "a", ext |-> ".csv"], [stem |-> "b", ext |-> ".xlsx"],
    [stem |-> "c", ext |-> ".xls"], [stem |-> "d", ext |-> ".csv"],
    [stem |-> "notes", ext |-> ".txt"] }

\* the orders os.listdir can give entries in: sequences without repetition
Listings ==
  UNION { {l \in [1..n -> DirEntries] : \A i, j \in 1..n : l[i] = l[j] => i = j} :
          n \in 0..MaxFiles }

RawTempCells == {Int2Num(1), Txt("A"), NA}

FileRegionCells == {Txt("A"), NA}

\* the dtype the parser gives a column of a file with rows: object when a
\* cell is text, float64 when every cell is a number or empty
InferDtype(cells) == IF \E i \in 1..Len(cells) : IsTxt(cells[i]) THEN "obj" ELSE "num"

FileTables ==
  UNION { { MkTable(<<"Year", "Average_Temperature_C", "Region">>, <<a, b, c>>,
                    <<InferDtype(a), InferDtype(b), InferDtype(c)>>) :
              a \in [1..n -> YearCells], b \in [1..n -> RawTempCells],
              c \in [1..n -> FileRegionCells] } :
          n \in 1..MaxFileRows }

FileContents == {Unreadable} \cup {[ok |-> TRUE, table |-> t] : t \in FileTables}

\* f.endswith(('.csv', '.xlsx', '.xls'))
IsDataFile(e) == e.ext \in {".csv", ".xlsx", ".xls"}

\* os.path.basename(file_path)
BaseName(e) == e.stem \o e.ext

\* f"processed_{os.path.basename(file_path)}" in config.PROCESSED_DATA_PATH
OutputName(e) == "processed_" \o BaseName(e)

numeric_exclude == <<"Year", "Year Code", "Area Code", "Element Code", "Item Code">>

\* df.select_dtypes(include=['object']).columns.tolist()
ObjectColumns(t) == Names(t.columns, {c \in Range(t.columns) : t.dtype[c] = "obj"})

\* no try/except in process_file: the exception reaches main's except
ProcessFileHandler_None == "main_except"

\* a stage that lets its internal error out: process_file's except takes it
StageReturn_Propagates(fr, next) == IF fr.raised THEN "except" ELSE next

\* where an exception raised in process_file's try block is handled:
\* process_file's own except logs it and process_file returns
ProcessFileHandler == "except"

\* a stage's outer except logs and returns df: control goes on with the
\* next statement of process_file whether or not the stage failed inside
StageReturn(fr, next) == next

InitBatch ==
  /\ listing \in {None} \cup {Some(l) : l \in Listings}
  /\ data_files = <<>>
  /\ idx = 0
  /\ pc = "start"
  /\ df = EmptyTable
  /\ trace = <<>>
  /\ record = <<>>
  /\ input = EmptyTable
  /\ call = NoCall
  /\ out = Enter(EmptyTable)

\* main: os.listdir raises when the raw directory is missing, else the data
\* files are the entries with a data suffix
ListDataFiles ==
  /\ pc = "start"
  /\ IF listing.some
     THEN /\ data_files' = Names(listing.val, {e \in Range(listing.val) : IsDataFile(e)})
          /\ idx' = 1
          /\ pc' = "loop"
     ELSE /\ pc' = "main_except"
          /\ UNCHANGED <<data_files, idx>>
  /\ UNCHANGED <<listing, df, trace, record, stageVars>>

\* main: for file_path in data_files: process_file(file_path)
CallProcessFile ==
  /\ pc = "loop"
  /\ idx <= Len(data_files)
  /\ pc' = "load"
  /\ trace' = <<>>
  /\ UNCHANGED <<listing, data_files, idx, df, record, stageVars>>

MainReturns ==
  /\ pc = "loop"
  /\ idx > Len(data_files)
  /\ pc' = "done"
  /\ UNCHANGED <<listing, data_files, idx, df, trace, record, stageVars>>

\* main's except: logs and returns
MainExcept ==
  /\ pc = "main_except"
  /\ pc' = "done"
  /\ UNCHANGED <<listing, data_files, idx, df, trace, record, stageVars>>

\* process_file: load_csv for a .csv path, load_excel for any other
LoadFile ==
  /\ pc = "load"
  /\ \E content \in FileContents :
       LET csv == data_files[idx].ext = ".csv"
           r == IF csv THEN load_csv(content) ELSE load_excel(content, None)
           entry == [fn |-> IF csv THEN "load_csv" ELSE "load_excel",
                     raised |-> r.raised, readable |-> content.ok]
       IN /\ trace' = Append(trace, entry)
          /\ df' = r.df
          /\ pc' = IF r.raised THEN ProcessFileHandler ELSE "handle_missing_values"
  /\ UNCHANGED <<listing, data_files, idx, record, stageVars>>

\* df = <stage>(df, ...) for the frame fr the stage returns with
StageStep(name, fr, next) ==
  /\ pc = name
  /\ df' = fr.df
  /\ trace' = Append(trace, [fn |-> name, raised |-> fr.raised, readable |-> TRUE])
  /\ pc' = StageReturn(fr, next)
  /\ UNCHANGED <<listing, data_files, idx, record, stageVars>>

Step_handle_missing_values ==
  StageStep("handle_missing_values", handle_missing_values(df, "mean", None),
            "remove_duplicates")

Step_remove_duplicates ==
  StageStep("remove_duplicates", remove_duplicates(df), "process_numeric_columns")

Step_process_numeric_columns ==
  \E objectRaises \in BOOLEAN :
    StageStep("process_numeric_columns",
              process_numeric_columns(df, Some(numeric_exclude), objectRaises),
              "normalize_features")

Step_normalize_features ==
  \E belowTenEps \in BOOLEAN :
    StageStep("normalize_features",
              normalize_features(df, None, Some(numeric_exclude), belowTenEps),
              "create_dummy_variables")

Step_create_dummy_variables ==
  StageStep("create_dummy_variables",
            create_dummy_variables(df, Some(ObjectColumns(df)), 10, FALSE), "to_csv")

\* df.to_csv(output_file, index=False) succeeds; process_file returns
WriteOutput ==
  /\ pc = "to_csv"
  /\ record' = Append(record, [file |-> data_files[idx],
                               calls |-> Append(trace, [fn |-> "to_csv", raised |-> FALSE,
                                                        readable |-> TRUE]),
                               wrote |-> <<OutputName(data_files[idx])>>])
  /\ idx' = idx + 1
  /\ pc' = "loop"
  /\ df' = EmptyTable
  /\ trace' = <<>>
  /\ UNCHANGED <<listing, data_files, stageVars>>

\* df.to_csv raises (the output path is a directory, the output directory is
\* missing or not writable): nothing is written and the exception goes to
\* the handler of process_file's try block
WriteFails ==
  /\ pc = "to_csv"
  /\ trace' = Append(trace, [fn |-> "to_csv", raised |-> TRUE, readable |-> TRUE])
  /\ pc' = ProcessFileHandler
  /\ UNCHANGED <<listing, data_files, idx, df, record, stageVars>>

\* process_file's except: logs the error; process_file returns
ProcessFileExcept ==
  /\ pc = "except"
  /\ record' = Append(record, [file |-> data_files[idx], calls |-> trace, wrote |-> <<>>])
  /\ idx' = idx + 1
  /\ pc' = "loop"
  /\ df' = EmptyTable
  /\ trace' = <<>>
  /\ UNCHANGED <<listing, data_files, stageVars>>

Next ==
  \/ ListDataFiles
  \/ CallProcessFile
  \/ MainReturns
  \/ MainExcept
  \/ LoadFile
  \/ Step_handle_missing_values
  \/ Step_remove_duplicates
  \/ Step_process_numeric_columns
  \/ Step_normalize_features
  \/ Step_create_dummy_variables
  \/ WriteOutput
  \/ WriteFails
  \/ ProcessFileExcept

Spec == InitBatch /\ [][Next]_vars

(* ------------------------ claims: stage calls ------------------------- *)

\* the columns of the input a handle_missing_values call works on
Targets ==
  IF call.columns.some
  THEN Range(call.columns.val) \cap Range(input.columns)
  ELSE Range(input.columns)

\* the target columns whose resolved strategy is drop
DropTargets == {c \in Targets : ColStrategy(c, call.strategy) = "drop"}

\* the position in the input of the row labelled l
InputPos(l) == CHOOSE p \in 1..NRows(input) : input.index[p] = l

Returned == out.df

\* C1: after handle_missing_values returns, no row of the output has a
\* missing cell in any target column, whatever the column's resolved
\* strategy, also when every cell of the column was missing.
C1_NoMissingAfterCleaning ==
  call.fn = "handle_missing_values" =>
    \A c \in Targets : \A q \in 1..NRows(Returned) : ~IsNA(Returned.data[c][q])

\* C2 as stated: for every column c resolved to drop, the output has no row
\* in which c was missing in the input, and every surviving row has the
\* input's values in all columns other than c.
C2_DropKeepsOtherColumns ==
  call.fn = "handle_missing_values" =>
    \A c \in DropTargets : \A q \in 1..NRows(Returned) :
      LET p == InputPos(Returned.index[q])
      IN /\ ~IsNA(input.data[c][p])
         /\ \A d \in Range(input.columns) \ {c} : Returned.data[d][q] = input.data[d][p]

\* C2 amended: for every column c resolved to drop, the output has no row in
\* which c was missing in the input, every output row is a row of the input,
\* and every surviving row has the input's value in every cell of another
\* column that was not missing in the input (a missing cell of another
\* column may have been filled by that column's own strategy).
C2_DropKeepsPresentCells ==
  call.fn = "handle_missing_values" =>
    /\ Range(Returned.index) \subseteq Range(input.index)
    /\ \A c \in DropTargets : \A q \in 1..NRows(Returned) :
         LET p == InputPos(Returned.index[q])
         IN /\ ~IsNA(input.data[c][p])
            /\ \A d \in Range(input.columns) \ {c} :
                 ~IsNA(input.data[d][p]) => Returned.data[d][q] = input.data[d][p]

\* a drop column removed a row, a row survived, and a surviving row had a
\* missing cell of another column filled
C2_Witness ==
  /\ call.fn = "handle_missing_values"
  /\ \E c \in DropTargets :
       /\ \E p \in 1..NRows(input) : IsNA(input.data[c][p])
       /\ \E q \in 1..NRows(Returned) : \E d \in Range(input.columns) \ {c} :
            /\ IsNA(input.data[d][InputPos(Returned.index[q])])
            /\ ~IsNA(Returned.data[d][q])

\* C3 as stated: when an internal error occurs in process_numeric_columns,
\* normalize_features or create_dummy_variables, the returned table equals
\* the input table.
C3_ErrorReturnsInput ==
  (/\ call.fn \in {"process_numeric_columns", "normalize_features", "create_dummy_variables"}
   /\ out.raised)
    => Returned = input

\* C7: every stage leaves the table object the caller passed as it was, on
\* the success path and on every error path.
C7_CallerTableUnchanged ==
  call.fn # "none" => out.caller = input

\* a stage changed its working table and then an error reached its handler
C7_Witness ==
  /\ call.fn # "none"
  /\ out.raised
  /\ Returned # input
  /\ out.caller = input

\* C8: remove_duplicates returns exactly the rows of the input that are the
\* first occurrence of their content (all columns compared), in the input's
\* order, and applying it to its own result changes nothing.
C8_FirstOccurrencesKept ==
  call.fn = "remove_duplicates" =>
    LET kept == {p \in 1..NRows(input) : input.index[p] \in Range(Returned.index)}
    IN /\ Returned = SelectRows(input, kept)
       /\ \A p \in 1..NRows(input) :
            p \in kept <=> ~(\E q \in 1..(p - 1) : RowAt(input, q) = RowAt(input, p))
       /\ \A p, q \in 1..NRows(Returned) : RowAt(Returned, p) = RowAt(Returned, q) => p = q
       /\ remove_duplicates(Returned).df = Returned

\* a repeated row that does not follow its first occurrence directly was
\* removed, and a row after it survived
C8_Witness ==
  /\ call.fn = "remove_duplicates"
  /\ NRows(input) = 3
  /\ RowAt(input, 1) = RowAt(input, 3)
  /\ RowAt(input, 1) # RowAt(input, 2)
  /\ Returned.index = <<0, 1>>

\* the numbers of a column
Values(col) == Range(DropNACells(col))

\* a number cell holds a float in [0, 1]
InUnit(y) == ~FCell(y).neg /\ FLe(FCell(y), FInt(1))

\* C9: normalize_features maps every cell x of each selected column to
\* (x - min) / (max - min) over the column's values, which lies in [0, 1];
\* a column whose min equals max maps every cell to 0.  (A missing cell
\* holds no x and stays missing; the quotient is the float64 nearest it.)
C9_MinMaxScaled ==
  (call.fn = "normalize_features" /\ ~out.raised) =>
    \A c \in Range(NormalizeColumns(input, call.columns, call.exclude_columns)) :
      \A i \in 1..NRows(input) :
        LET x == input.data[c][i]
            y == Returned.data[c][i]
            mn == RMinOf(Values(input.data[c]))
            mx == RMaxOf(Values(input.data[c]))
        IN IF IsNA(x) THEN IsNA(y)
           ELSE /\ IsNum(y)
                /\ y = IF mn = mx THEN Int2Num(0) ELSE RDiv(RSub(x, mn), RSub(mx, mn))
                /\ InUnit(y)

\* the columns process_numeric_columns treats with the iqr method in this
\* call: registered with method iqr, not excluded, numeric in the input
IqrColumns ==
  {c \in Range(input.columns) :
     /\ \E k \in 1..Len(numeric_columns) :
          numeric_columns[k].col = c /\ numeric_columns[k].method = "iqr"
     /\ ~(call.exclude_columns.some /\ c \in Range(call.exclude_columns.val))
     /\ input.dtype[c] = "num"}

Spread(S) == IF S = {} THEN Int2Num(0) ELSE RSub(RMaxOf(S), RMinOf(S))

\* C10: for every column process_numeric_columns treats with iqr, with Q1 and
\* Q3 the linearly interpolated quartiles of the input column and
\* IQR = Q3 - Q1, every cell of the output that holds a number lies in
\* [Q1 - 1.5 * IQR, Q3 + 1.5 * IQR], and the output column's max - min is
\* not larger than the input column's.
C10_IqrBounds ==
  (call.fn = "process_numeric_columns" /\ ~out.raised) =>
    \A c \in IqrColumns :
      LET Q1 == Quantile(input.data[c], 1, 4)
          Q3 == Quantile(input.data[c], 3, 4)
          IQR == RSub(Q3, Q1)
      IN /\ \A i \in 1..NRows(Returned) :
              LET y == Returned.data[c][i]
              IN IF IsNA(input.data[c][i]) THEN IsNA(y)
                 ELSE /\ RLe(RSub(Q1, RMul(Num(3, 2), IQR)), y)
                      /\ RLe(y, RAdd(Q3, RMul(Num(3, 2), IQR)))
         /\ RLe(Spread(Values(Returned.data[c])), Spread(Values(input.data[c])))

\* an outlier above the upper bound was brought down to the bound
C10_Witness ==
  /\ call.fn = "process_numeric_columns"
  /\ ~out.raised
  /\ \E c \in IqrColumns : \E i \in 1..NRows(input) :
       /\ ~IsNA(input.data[c][i])
       /\ RLt(Returned.data[c][i], input.data[c][i])
       /\ Returned.data[c][i] =
            RAdd(Quantile(input.data[c], 3, 4),
                 RMul(Num(3, 2), RSub(Quantile(input.data[c], 3, 4),
                                      Quantile(input.data[c], 1, 4))))

\* the selected columns a create_dummy_variables call expands: the listed (or
\* default) columns the input has that are not numeric
DummySources ==
  LET listed == IF call.columns.some THEN Range(call.columns.val)
                ELSE Range(DefaultDummyColumns)
  IN {c \in listed \cap Range(input.columns) : ~IsNumericDtype(input, c)}

\* the indicator columns of source column c in the returned table
IndicatorColumns(c) ==
  {DummyName(c, Txt(TextOrder[k])) : k \in 1..Len(TextOrder)}
    \cap (Range(Returned.columns) \ Range(input.columns))

\* the indicator columns of c that are 1 in row i of the returned table
OnesAt(c, i) == {d \in IndicatorColumns(c) : Returned.data[d][i] = Int2Num(1)}

\* the category cap was applied to source column c
Capped(c) == Cardinality(Values(input.data[c])) > call.max_categories

\* C11: after create_dummy_variables expands a non-numeric source column, in
\* every row exactly one of the column's indicator columns is 1, or none is
\* and the row's cell in the source column was missing in the input; with the
\* category cap applied and without it.
C11_OneIndicatorPerRow ==
  call.fn = "create_dummy_variables" =>
    \A c \in DummySources :
      /\ \A d \in IndicatorColumns(c) :
           \A i \in 1..NRows(Returned) : Returned.data[d][i] \in {Int2Num(0), Int2Num(1)}
      /\ \A i \in 1..NRows(input) :
           \/ Cardinality(OnesAt(c, i)) = 1
           \/ Cardinality(OnesAt(c, i)) = 0 /\ IsNA(input.data[c][i])

\* one call expanded a capped column and an uncapped one: in the capped
\* column a missing cell went to Other, in the uncapped one a row with a
\* missing cell has all indicators 0 and a row with a value has one
C11_Witness ==
  /\ call.fn = "create_dummy_variables"
  /\ ~out.raised
  /\ \E c \in DummySources :
       /\ Capped(c)
       /\ Cardinality(IndicatorColumns(c)) >= 1
       /\ \E i \in 1..NRows(input) :
            /\ IsNA(input.data[c][i])
            /\ OnesAt(c, i) = {DummyName(c, Txt("Other"))}
  /\ \E c \in DummySources :
       /\ ~Capped(c)
       /\ \E i, j \in 1..NRows(input) :
            /\ IsNA(input.data[c][i])
            /\ OnesAt(c, i) = {}
            /\ ~IsNA(input.data[c][j])
            /\ OnesAt(c, j) = {DummyName(c, input.data[c][j])}

\* the values of source column c that have their own indicator column in the
\* returned table, 'Other' apart
OwnColumnValues(c) ==
  {v \in Values(input.data[c]) :
     v # Txt("Other") /\ DummyName(c, v) \in IndicatorColumns(c)}

\* K can be the values that were kept: max_categories - 1 of the values of
\* c, none less frequent than a value left out
MostFrequent(c, K) ==
  /\ K \subseteq Values(input.data[c])
  /\ Cardinality(K) = call.max_categories - 1
  /\ \A v \in K : \A w \in Values(input.data[c]) \ K :
       Count(input.data[c], v) >= Count(input.data[c], w)

\* C12: in create_dummy_variables with max_categories >= 1, for a selected
\* non-numeric column with more distinct values than max_categories, the
\* max_categories - 1 most frequent values each keep their own indicator
\* column '{column}_{value}', every other value is remapped to 'Other', the
\* output has a '{column}_Other' indicator column, and the column expands
\* into at most max_categories indicator columns.
C12_CapKeepsMostFrequent ==
  call.fn = "create_dummy_variables" /\ call.max_categories >= 1 =>
    \A c \in DummySources :
      Capped(c) =>
        /\ DummyName(c, Txt("Other")) \in IndicatorColumns(c)
        /\ Cardinality(IndicatorColumns(c)) <= call.max_categories
        /\ \E K \in SUBSET Values(input.data[c]) :
             /\ MostFrequent(c, K)
             /\ IndicatorColumns(c) =
                  {DummyName(c, v) : v \in K} \cup {DummyName(c, Txt("Other"))}
             /\ \A i \in 1..NRows(input) :
                  LET x == input.data[c][i]
                  IN /\ x \in K => OnesAt(c, i) = {DummyName(c, x)}
                     /\ ~IsNA(x) /\ x \notin K =>
                          /\ OnesAt(c, i) = {DummyName(c, Txt("Other"))}
                          /\ HasCol(Returned, c) => Returned.data[c][i] = Txt("Other")

\* a column of three distinct values was capped to two: the value that
\* occurs twice kept its column, the two values that occur once went to Other
C12_Witness ==
  /\ call.fn = "create_dummy_variables"
  /\ ~out.raised
  /\ call.max_categories = 2
  /\ \E c \in DummySources :
       /\ Capped(c)
       /\ Cardinality(IndicatorColumns(c)) = 2
       /\ \E v \in OwnColumnValues(c) :
            /\ Count(input.data[c], v) = 2
            /\ \E i, j \in 1..NRows(input) :
                 /\ input.data[c][i] = v
                 /\ OnesAt(c, i) = {DummyName(c, v)}
                 /\ ~IsNA(input.data[c][j])
                 /\ Count(input.data[c], input.data[c][j]) = 1
                 /\ OnesAt(c, j) = {DummyName(c, Txt("Other"))}

\* the names handle_missing_values loops over that the input has, in the
\* order of the loop: the columns argument, or the table's columns
LoopOrder ==
  LET cols == IF call.columns.some THEN call.columns.val ELSE input.columns
  IN Names(cols, Range(input.columns))

\* the strategy the claim says is applied to column c: the policy table's
\* entry or the caller's default, an invalid one replaced by mean on a
\* numeric column and by mode on a text column
AppliedStrategy(c) ==
  LET s == IF c \in DOMAIN column_strategies THEN column_strategies[c] ELSE call.strategy
  IN IF IsNumericDtype(input, c)
     THEN (IF s \in {"mean", "median", "mode", "drop"} THEN s ELSE "mean")
     ELSE (IF s \in {"mode", "drop"} THEN s ELSE "mode")

\* the columns that come before c in the sequence order
Before(c, order) ==
  LET k == CHOOSE i \in 1..Len(order) : order[i] = c /\ \A j \in 1..(i - 1) : order[j] # c
  IN {order[j] : j \in 1..(k - 1)}

\* the positions of the input rows still in the working table when column c
\* is reached, the columns being processed in the sequence order: the rows
\* no drop column before c has removed
RemainingAt(c, order) ==
  {p \in 1..NRows(input) :
     \A d \in Before(c, order) : AppliedStrategy(d) = "drop" => ~IsNA(input.data[d][p])}

\* the value strategy s fills with, from the cells given: the mean, the
\* median, the smallest mode; missing when there is no value
Statistic(s, cells) ==
  CASE s = "mean" -> Mean(cells)
    [] s = "median" -> Median(cells)
    [] OTHER -> IF ModeValues(cells) = <<>> THEN NA ELSE ModeValues(cells)[1]

\* the fill value of column c when the columns are processed in the
\* sequence order
FillValue(c, order) ==
  Statistic(AppliedStrategy(c), Pick(input.data[c], RemainingAt(c, order)))

\* C13: in handle_missing_values every target column with a missing cell is
\* handled by its policy-table strategy if listed, else by the caller's
\* default; an unknown strategy acts as mean on a numeric column, anything
\* but mode or drop acts as mode on a text column: the rows returned are the
\* rows with no missing cell in a column whose applied strategy is drop, and
\* a missing cell of a returned row holds the statistic of the applied
\* strategy.  A column with no missing cell keeps its cells.
C13_AppliedStrategy ==
  call.fn = "handle_missing_values" =>
    /\ Returned.index =
         Pick(input.index,
              {p \in 1..NRows(input) :
                 \A d \in Targets : AppliedStrategy(d) = "drop" => ~IsNA(input.data[d][p])})
    /\ \A c \in Targets : \A q \in 1..NRows(Returned) :
         LET p == InputPos(Returned.index[q])
         IN IF IsNA(input.data[c][p])
            THEN /\ AppliedStrategy(c) # "drop"
                 /\ Returned.data[c][q] = FillValue(c, LoopOrder)
            ELSE Returned.data[c][q] = input.data[c][p]
    /\ \A c \in Targets :
         NACount(input, c) = 0 =>
           Returned.data[c] = Pick(input.data[c], {InputPos(l) : l \in Range(Returned.index)})

\* called with a strategy that is none of the four: a numeric column that
\* is not in the policy table had a missing cell filled with its mean, and a
\* listed text column had one filled with its mode
C13_Witness ==
  /\ call.fn = "handle_missing_values"
  /\ call.strategy \notin {"mean", "median", "mode", "drop"}
  /\ \E c, d \in Targets : \E q \in 1..NRows(Returned) :
       LET p == InputPos(Returned.index[q])
       IN /\ c \notin DOMAIN column_strategies
          /\ IsNumericDtype(input, c)
          /\ IsNA(input.data[c][p])
          /\ Returned.data[c][q] = Mean(input.data[c])
          /\ ~IsNA(Returned.data[c][q])
          /\ d \in DOMAIN column_strategies
          /\ ~IsNumericDtype(input, d)
          /\ IsNA(input.data[d][p])
          /\ IsTxt(Returned.data[d][q])

\* the target columns in table column order
TableOrder == Names(input.columns, Targets)

\* the input with its columns in the opposite order, the rows the same
ColumnsReversed ==
  [input EXCEPT !.columns = [i \in 1..Len(input.columns) |->
                               input.columns[Len(input.columns) + 1 - i]]]

\* C14 as stated: handle_missing_values processes the target columns in
\* table column order against the working table, so a column's fill value is
\* the statistic over the rows that no drop column earlier in table column
\* order has removed.
C14_FillInTableOrder ==
  call.fn = "handle_missing_values" =>
    \A c \in Targets : \A q \in 1..NRows(Returned) :
      IsNA(input.data[c][InputPos(Returned.index[q])]) =>
        Returned.data[c][q] = FillValue(c, TableOrder)

\* C14, amended: handle_missing_values processes the target columns in the
\* order of the columns argument (table column order when none is given)
\* against the working table, so a column's fill value is the statistic over
\* exactly the rows left when the column is reached: the rows a drop column
\* processed earlier removed are left out, the rows a drop column processed
\* later removes are counted.
C14_FillInLoopOrder ==
  call.fn = "handle_missing_values" =>
    \A c \in Targets : \A q \in 1..NRows(Returned) :
      IsNA(input.data[c][InputPos(Returned.index[q])]) =>
        LET earlier == {d \in Before(c, LoopOrder) : AppliedStrategy(d) = "drop"}
            rows == {p \in 1..NRows(input) : \A d \in earlier : ~IsNA(input.data[d][p])}
        IN Returned.data[c][q] = Statistic(AppliedStrategy(c), Pick(input.data[c], rows))

\* called without a columns argument on a two-column table: a filled cell
\* holds another value than the same call on the table with the columns in
\* the opposite order gives it, a drop column coming first in one table and
\* last in the other
C14_Witness ==
  /\ call.fn = "handle_missing_values"
  /\ ~call.columns.some
  /\ Len(input.columns) = 2
  /\ LET other == handle_missing_values(ColumnsReversed, call.strategy, None).df
     IN /\ other.index = Returned.index
        /\ \E c \in Targets : \E q \in 1..NRows(Returned) :
             /\ IsNA(input.data[c][InputPos(Returned.index[q])])
             /\ ~IsNA(Returned.data[c][q])
             /\ ~IsNA(other.data[c][q])
             /\ Returned.data[c][q] # other.data[c][q]
             /\ \E d \in Before(c, LoopOrder) :
                  /\ AppliedStrategy(d) = "drop"
                  /\ NRows(Returned) < NRows(input)

(* --------------------------- claims: batch ---------------------------- *)

Files(rec) == [i \in 1..Len(rec) |-> rec[i].file]

Fns(calls) == [i \in 1..Len(calls) |-> calls[i].fn]

StageOrder ==
  <<"handle_missing_values", "remove_duplicates", "process_numeric_columns",
    "normalize_features", "create_dummy_variables", "to_csv">>

\* C4: in a batch run a load failure is fatal to its own file only: the
\* loader raises, process_file returns having called nothing else and written
\* nothing for that file, and main goes on, so that when main returns every
\* discovered file has been attempted exactly once, in order, whichever
\* earlier files failed.
C4_LoadFailureIsLocal ==
  /\ pc \in {"loop", "done"} /\ listing.some =>
       /\ data_files = Names(listing.val, {e \in Range(listing.val) : IsDataFile(e)})
       /\ Files(record) = SubSeq(data_files, 1, idx - 1)
  /\ pc = "done" => Files(record) = data_files
  /\ \A i \in 1..Len(record) :
       record[i].calls[1].raised => Len(record[i].calls) = 1 /\ record[i].wrote = <<>>

\* main returned after a CSV file that failed to load and a later file that
\* was processed and written
C4_Witness ==
  /\ pc = "done"
  /\ Len(record) = 2
  /\ record[1].file.ext = ".csv"
  /\ record[1].calls[1].raised
  /\ record[2].wrote # <<>>

\* C5: for a file that loaded, process_file calls handle_missing_values,
\* remove_duplicates, process_numeric_columns, normalize_features,
\* create_dummy_variables and the write in this order; a failure inside a
\* stage stays inside it: the next stage is the one process_file is at, and
\* every loaded file ends with all six calls made, the write last; the
\* output is there unless the write itself raised.
C5_StagesRunInOrder ==
  /\ \A i \in 1..Len(record) :
       ~record[i].calls[1].raised =>
         /\ Tail(Fns(record[i].calls)) = StageOrder
         /\ record[i].wrote = <<>> <=> record[i].calls[Len(record[i].calls)].raised
  /\ (trace # <<>> /\ ~trace[1].raised) =>
       /\ Tail(Fns(trace)) = SubSeq(StageOrder, 1, Len(trace) - 1)
       /\ IF Len(trace) <= Len(StageOrder)
          THEN pc = StageOrder[Len(trace)]
          ELSE pc = "except" /\ trace[Len(trace)].raised

\* a file was written although one of its stages failed inside
C5_Witness ==
  \E i \in 1..Len(record) :
    /\ record[i].wrote # <<>>
    /\ \E k \in 2..(Len(record[i].calls) - 1) : record[i].calls[k].raised

\* the write of the file of record entry i was reached and raised
WriteRaised(i) ==
  \E k \in 1..Len(record[i].calls) :
    record[i].calls[k].fn = "to_csv" /\ record[i].calls[k].raised

\* C6 as stated: every discovered file that can be opened and parsed, CSV or
\* spreadsheet, is loaded and exactly one output named processed_<base name>
\* is written for it (the output path being writable).
C6_ReadableFileWritten ==
  \A i \in 1..Len(record) :
    record[i].calls[1].readable /\ ~WriteRaised(i) =>
      /\ ~record[i].calls[1].raised
      /\ record[i].wrote = <<"processed_" \o record[i].file.stem \o record[i].file.ext>>

====
